---- MODULE Spec2Model ----
(***************************************************************************)
(* clockhand `watch`: the startup sequence and the event loop of main      *)
(* (src/src/main.rs), with the helpers it calls.  Time is the monotonic    *)
(* clock read by Instant::now(), counted in whole seconds; the remote      *)
(* service, the notification surface and the file watcher are the          *)
(* environment and answer nondeterministically.                            *)
(***************************************************************************)
EXTENDS Integers, Sequences, FiniteSets, TLC

VARIABLES
    pc,                 \* position of main: "start", "load", "recv", "user", "list", "dispatch", "done"
    exit,               \* "running", "error" (main returned Err, status 1), "panic" (status 101)
    stderr,             \* the fatal message printed when the process ended, "" before
    interval,           \* watch_args.interval
    args,               \* watch_args.project_config_paths, with what each file holds
    now,                \* the monotonic clock
    last_request_time,  \* [some, v]: unset before line 98
    projects,           \* Vec<Project>
    watched,            \* the roots the watcher has been told to watch, in order
    rx,                 \* the mpsc channel, messages not yet received
    connected,          \* the channel's sender is alive
    sent,               \* messages the watcher has sent so far
    cur,                \* the message the loop received last and what was done for it
    log,                \* one entry per file event received: when, accepted, checked, for which project
    lost_reports,       \* "watch error" lines printed for a lost channel
    hours_in,           \* report: timer.hours of the entry printed, in seconds
    rendered            \* report: the duration column printed for it, as characters

vars == <<pc, exit, stderr, interval, args, now, last_request_time, projects, watched,
          rx, connected, sent, cur, log, lost_reports, hours_in, rendered>>

----------------------------------------------------------------------------
(* Bounds of the model *)

StartClock == 3     \* the clock's reading when the process starts
MaxTime == 8        \* the clock stops advancing here
MaxEvents == 3      \* messages the watcher sends in one run
MaxReports == 2     \* lost-channel reports the model follows

(* --interval values; the largest cannot be subtracted from the clock *)
Intervals == {2, 3, StartClock + 1}

----------------------------------------------------------------------------
(* Paths are sequences of components; "/" is the root component *)

AlphaRoot == <<"/", "p", "alpha">>
BetaRoot == <<"/", "p", "beta">>

AlphaFile == [state |-> "ok", harvest_project_id |-> 42, name |-> "Alpha"]
BetaFile == [state |-> "ok", harvest_project_id |-> 99, name |-> "Beta"]
MissingFile == [state |-> "missing", harvest_project_id |-> 0, name |-> ""]
MalformedFile == [state |-> "malformed", harvest_project_id |-> 0, name |-> ""]

AlphaArg == [path |-> AlphaRoot \o <<".config", "clockhand.json">>, file |-> AlphaFile]
BetaArg == [path |-> BetaRoot \o <<"clockhand.json">>, file |-> BetaFile]

(* a project whose root /p contains the roots of Alpha and Beta *)
OuterFile == [state |-> "ok", harvest_project_id |-> 7, name |-> "Outer"]
OuterArg == [path |-> <<"/", "p", "clockhand.json">>, file |-> OuterFile]

(* readable, well-formed descriptors named without a directory, by ./, and
   in the filesystem root *)
BareArg == [path |-> <<"clockhand.json">>, file |-> AlphaFile]
DotArg == [path |-> <<".", "clockhand.json">>, file |-> AlphaFile]
TopArg == [path |-> <<"/", "clockhand.json">>, file |-> AlphaFile]

(* command lines: the two-project scenario, nested roots with the outer one
   first, descriptors without a named directory, and two with an unusable
   descriptor *)
ArgSets ==
    { <<AlphaArg, BetaArg>>,
      <<OuterArg, AlphaArg>>,
      <<BareArg>>,
      <<DotArg>>,
      <<TopArg>>,
      <<AlphaArg, [path |-> BetaRoot \o <<"clockhand.json">>, file |-> MissingFile]>>,
      <<[path |-> AlphaRoot \o <<"clockhand.json">>, file |-> MalformedFile], BetaArg>> }

(* watch invocations: the two-project scenario with every interval, the other
   command lines with the shortest *)
CommandLines ==
    {<<i, a>> \in Intervals \X ArgSets : a = <<AlphaArg, BetaArg>> \/ i = 2}

(* paths the watcher reports: under Alpha, under Beta, under no root *)
EventPaths ==
    { AlphaRoot \o <<"src", "main.ext">>,
      BetaRoot \o <<"notes.txt">>,
      <<"/", "private", "p", "alpha", "src", "main.ext">> }

(* a sibling of Alpha's root whose name begins with "alpha" *)
AlphabetPath == <<"/", "p", "alphabet", "file.txt">>

(* events with no path, one path, and two paths *)
EventPathLists ==
    {<<>>} \cup {<<p>> : p \in EventPaths}
    \cup { <<AlphabetPath, AlphaRoot \o <<"src", "main.ext">>>>,
           <<AlphaRoot \o <<"src", "main.ext">>, BetaRoot \o <<"notes.txt">>>> }

Messages ==
    {[kind |-> "event", paths |-> ps] : ps \in EventPathLists}
    \cup {[kind |-> "error", paths |-> <<>>]}

(* what list_time_entries(is_running, per_page 1) can answer *)
Answers ==
    { [kind |-> "fail", project_id |-> 0],
      [kind |-> "none", project_id |-> 0],
      [kind |-> "timer", project_id |-> 42],
      [kind |-> "timer", project_id |-> 99],
      [kind |-> "timer_no_project", project_id |-> 0] }

NoAnswer == [kind |-> "unasked", project_id |-> 0]

----------------------------------------------------------------------------
(* Helpers *)

None == [some |-> FALSE, v |-> 0]
Some(x) == [some |-> TRUE, v |-> x]

(* Instant::checked_sub: None when the result is not representable *)
checked_sub(t, d) == IF t - d < 0 THEN None ELSE Some(t - d)

(* the comparison of line 132 on the clock's reading, not on the time elapsed *)
interval_passed_since_boot(last, t, secs) == t > secs

(* the comparison of line 132 taken as 'at least' *)
interval_passed_at_least(last, t, secs) == (t - last) >= secs

(* last_request_time.elapsed() > Duration::from_secs(interval) *)
interval_passed(last, t, secs) == (t - last) > secs

(* s is a leading piece of the component name t, for the names in use *)
IsNamePrefix(s, t) == s = t \/ (s = "alpha" /\ t = "alphabet")

(* a prefix test on the path strings: the last component of base only has to
   begin the component of path at its place *)
starts_with_str(path, base) ==
    /\ Len(base) <= Len(path)
    /\ \A k \in 1..(Len(base) - 1) : path[k] = base[k]
    /\ base # <<>> => IsNamePrefix(base[Len(base)], path[Len(base)])

(* Path::starts_with: whole components *)
starts_with(path, base) ==
    /\ Len(base) <= Len(path)
    /\ SubSeq(path, 1, Len(base)) = base

contains_file(project, path) == starts_with(path, project.root)

(* a resolution that falls back to the first project *)
find_project_or_first(projs, path) ==
    LET S == {i \in 1..Len(projs) : starts_with(path, projs[i].root)}
    IN  IF S = {} THEN 1 ELSE CHOOSE i \in S : \A j \in S : i <= j

(* a resolution that prefers the project registered last *)
find_project_last(projs, path) ==
    LET S == {i \in 1..Len(projs) : starts_with(path, projs[i].root)}
    IN  IF S = {} THEN 0 ELSE CHOOSE i \in S : \A j \in S : j <= i

(* projects.iter().find(|p| p.contains_file(path)): the index, 0 for None *)
find_project(projs, path) ==
    LET S == {i \in 1..Len(projs) : contains_file(projs[i], path)}
    IN  IF S = {} THEN 0 ELSE CHOOSE i \in S : \A j \in S : i <= j

(* Path::parent *)
parent(p) ==
    IF p = <<>> \/ p = <<"/">> THEN None ELSE Some(SubSeq(p, 1, Len(p) - 1))

(* Path::file_name *)
file_name(p) ==
    IF p = <<>> \/ p[Len(p)] \in {"/", "..", "."} THEN None ELSE Some(p[Len(p)])

NoProject == [harvest_project_id |-> 0, root |-> <<>>, name |-> ""]

(* read_project_config: [ok, err, project] *)
read_project_config(arg) ==
    IF arg.file.state = "missing"
    THEN [ok |-> FALSE, err |-> "didn't find the project config file", project |-> NoProject]
    ELSE IF arg.file.state = "malformed"
    THEN [ok |-> FALSE, err |-> "bad format", project |-> NoProject]
    ELSE LET config_dir == parent(arg.path) IN
         IF ~config_dir.some
         THEN [ok |-> FALSE, err |-> "failed to get parent directory of path",
               project |-> NoProject]
         ELSE LET dir_name == file_name(config_dir.v) IN
              IF ~dir_name.some
              THEN [ok |-> FALSE, err |-> "failed to get file name of config_dir",
                    project |-> NoProject]
              ELSE IF dir_name.v = ".config"
              THEN LET up == parent(config_dir.v) IN
                   IF ~up.some
                   THEN [ok |-> FALSE, err |-> "failed to get parent directory of config_dir",
                         project |-> NoProject]
                   ELSE [ok |-> TRUE, err |-> "",
                         project |-> [harvest_project_id |-> arg.file.harvest_project_id,
                                      root |-> up.v, name |-> arg.file.name]]
              ELSE [ok |-> TRUE, err |-> "",
                    project |-> [harvest_project_id |-> arg.file.harvest_project_id,
                                 root |-> config_dir.v, name |-> arg.file.name]]

(* the match of is_active_timer_for_project on the first running timer;
   "panic" is the unwrap of a timer's missing project *)
timer_status(answer, project) ==
    IF answer.kind = "none" THEN "TimerNotRunning"
    ELSE IF answer.kind = "timer_no_project" THEN "panic"
    ELSE IF answer.project_id = project.harvest_project_id THEN "TimerRunning"
    ELSE "TimerForDifferentProject"

(* a dispatch that notifies for TimerRunning too *)
notifications_for_every_status(status, project) ==
    IF status = "TimerForDifferentProject"
    THEN <<[summary |-> "Timer running for other project", body |-> <<"Start a timer for ", project.name>>]>>
    ELSE <<[summary |-> "Timer not running", body |-> <<"Start a timer for ", project.name>>]>>

(* the match of notify_project_timer_status: the notifications it builds *)
notifications_for(status, project) ==
    IF status = "TimerNotRunning"
    THEN <<[summary |-> "Timer not running", body |-> <<"Start a timer for ", project.name>>]>>
    ELSE IF status = "TimerForDifferentProject"
    THEN <<[summary |-> "Timer running for other project", body |-> <<"Start a timer for ", project.name>>]>>
    ELSE <<>>

NoMessage ==
    [kind |-> "none", paths |-> <<>>, at |-> 0, before |-> 0, accepted |-> FALSE,
     called |-> FALSE, project |-> 0, calls |-> <<>>, answer |-> NoAnswer,
     status |-> "none", dispatched |-> FALSE, shown |-> <<>>]

Running == exit = "running"

Die(how, msg) ==
    /\ pc' = "done"
    /\ exit' = how
    /\ stderr' = msg

Stay == UNCHANGED <<exit, stderr>>

----------------------------------------------------------------------------
Init ==
    /\ pc = "start"
    /\ exit = "running"
    /\ stderr = ""
    /\ \E c \in CommandLines :
          /\ interval = c[1]
          /\ args = c[2]
    /\ now = StartClock
    /\ last_request_time = None
    /\ projects = <<>>
    /\ watched = <<>>
    /\ rx = <<>>
    /\ connected = TRUE
    /\ sent = 0
    /\ cur = NoMessage
    /\ log = <<>>
    /\ lost_reports = 0
    /\ hours_in = 0
    /\ rendered = <<>>

(* the clock advances *)
Tick ==
    /\ Running
    /\ now < MaxTime
    /\ now' = now + 1
    /\ UNCHANGED <<pc, exit, stderr, interval, args, last_request_time, projects, rx,
                   connected, sent, cur, log, lost_reports>>
    /\ UNCHANGED <<watched, hours_in, rendered>>

(* lines 74-100: notification setup, credentials, channel, watcher, debounce state *)
Startup ==
    /\ Running
    /\ pc = "start"
    /\ \E setup_ok \in BOOLEAN :
          IF ~setup_ok
          THEN /\ Die("error", "setup failed")
               /\ UNCHANGED last_request_time
          ELSE LET t == checked_sub(now, interval) IN
               IF ~t.some
               THEN /\ Die("panic", "called Option::unwrap() on a None value")
                    /\ UNCHANGED last_request_time
               ELSE /\ last_request_time' = t
                    /\ pc' = "load"
                    /\ Stay
    /\ UNCHANGED <<interval, args, now, projects, rx, connected, sent, cur, log,
                   lost_reports>>
    /\ UNCHANGED <<watched, hours_in, rendered>>

(* a registration loop that is left after its first iteration *)
registration_done_after_first(projs, paths) == Len(projs) >= 1

(* line 104: the iterator over project_config_paths is exhausted *)
registration_done(projs, paths) == Len(projs) = Len(paths)

(* lines 104-114: one iteration of the registration loop: the descriptor is
   read, its root is watched, the project is pushed *)
LoadProject ==
    /\ Running
    /\ pc = "load"
    /\ ~registration_done(projects, args)
    /\ LET r == read_project_config(args[Len(projects) + 1]) IN
          IF r.ok
          THEN \E watch_ok \in BOOLEAN :
                  IF watch_ok
                  THEN /\ watched' = Append(watched, r.project.root)
                       /\ projects' = Append(projects, r.project)
                       /\ UNCHANGED pc
                       /\ Stay
                  ELSE \* watcher.watch(..).unwrap()
                       /\ Die("panic", "called Result::unwrap() on an Err value")
                       /\ UNCHANGED <<projects, watched>>
          ELSE \* read_project_config(..)?
               /\ Die("error", r.err)
               /\ UNCHANGED <<projects, watched>>
    /\ UNCHANGED <<interval, args, now, last_request_time, rx, connected, sent, cur, log,
                   lost_reports, hours_in, rendered>>

(* line 117: the registration loop is over, the event loop begins *)
StartLoop ==
    /\ Running
    /\ pc = "load"
    /\ registration_done(projects, args)
    /\ pc' = "recv"
    /\ UNCHANGED <<exit, stderr, interval, args, now, last_request_time, projects, rx,
                   connected, sent, cur, log, lost_reports>>
    /\ UNCHANGED <<watched, hours_in, rendered>>

(* the watcher sends a message: possible once a root is watched *)
Send ==
    /\ Running
    /\ connected
    /\ watched # <<>>
    /\ sent < MaxEvents
    /\ \E m \in Messages : rx' = Append(rx, m)
    /\ sent' = sent + 1
    /\ UNCHANGED <<pc, exit, stderr, interval, args, now, last_request_time, projects,
                   connected, cur, log, lost_reports>>
    /\ UNCHANGED <<watched, hours_in, rendered>>

(* the sender side of the channel goes away.  The loop can tell only in a
   recv on an empty channel, so the moment is taken there: a sender that went
   away earlier is one that sent nothing more. *)
Disconnect ==
    /\ Running
    /\ connected
    /\ pc = "recv"
    /\ rx = <<>>
    /\ connected' = FALSE
    /\ UNCHANGED <<pc, exit, stderr, interval, args, now, last_request_time, projects, rx,
                   sent, cur, log, lost_reports>>
    /\ UNCHANGED <<watched, hours_in, rendered>>

(* a receive that takes the newest message *)
recv_newest(q) == [msg |-> q[Len(q)], rest |-> SubSeq(q, 1, Len(q) - 1)]

(* rx.recv() on a channel that holds messages: the oldest one *)
recv(q) == [msg |-> Head(q), rest |-> Tail(q)]

(* the last path of an event *)
last_path(paths) == IF paths = <<>> THEN None ELSE Some(paths[Len(paths)])

(* ee.paths.first() *)
first(paths) == IF paths = <<>> THEN None ELSE Some(paths[1])

(* a loop with line 136 outside the if *)
next_request_time_always(accepted, last, t) == Some(t)

(* a loop that forgets line 136 *)
next_request_time_never_reset(accepted, last, t) == last

(* line 136: the debounce state after an event *)
next_request_time(accepted, last, t) == IF accepted THEN Some(t) ELSE last

(* lines 118-147 with rx.recv() returning Ok: one message is taken and handled
   up to the first await (the identify-user call of is_active_timer_for_project).
   The clock reads of lines 132 and 136 are one reading. *)
Recv ==
    /\ Running
    /\ pc = "recv"
    /\ rx # <<>>
    /\ rx' = recv(rx).rest
    /\ LET m == recv(rx).msg
           path == first(m.paths)
           got == [NoMessage EXCEPT !.kind = m.kind, !.paths = m.paths, !.at = now,
                                    !.before = last_request_time.v]
       IN
       IF m.kind = "error"
       THEN \* Ok(Err(ee)): println!("watch error")
            /\ cur' = got
            /\ UNCHANGED <<pc, last_request_time, log>>
            /\ Stay
       ELSE LET accepted == interval_passed(last_request_time.v, now, interval)
                p == IF ~path.some THEN 0 ELSE find_project(projects, path.v)
                called == accepted /\ path.some
                checked == called /\ p # 0
            IN
            /\ last_request_time' = next_request_time(accepted, last_request_time, now)
            /\ log' = Append(log, [at |-> now, accepted |-> accepted, checked |-> checked,
                                   project |-> IF called THEN p ELSE 0])
            /\ cur' = [got EXCEPT !.accepted = accepted, !.called = called,
                                  !.project = IF called THEN p ELSE 0,
                                  !.calls = IF checked THEN <<"user">> ELSE <<>>]
            /\ IF ~accepted
               THEN /\ UNCHANGED pc
                    /\ Stay
               ELSE IF ~path.some
               THEN \* path.unwrap()
                    Die("panic", "called Option::unwrap() on a None value")
               ELSE IF p = 0
               THEN \* .ok_or_else(..).unwrap()
                    Die("panic", "path isn't in any project")
               ELSE /\ pc' = "user"
                    /\ Stay
    /\ UNCHANGED <<interval, args, now, projects, connected, sent, lost_reports>>
    /\ UNCHANGED <<watched, hours_in, rendered>>

(* line 147: rx.recv() returns Err once the channel is empty and has no sender *)
RecvLost ==
    /\ Running
    /\ pc = "recv"
    /\ rx = <<>>
    /\ ~connected
    /\ lost_reports < MaxReports
    /\ lost_reports' = lost_reports + 1
    /\ cur' = [NoMessage EXCEPT !.kind = "lost", !.at = now, !.before = last_request_time.v]
    /\ UNCHANGED <<pc, exit, stderr, interval, args, now, last_request_time, projects, rx,
                   connected, sent, log>>
    /\ UNCHANGED <<watched, hours_in, rendered>>

(* lines 380-394: retrieve_the_currently_authenticated_user answers; on success
   list_time_entries is called *)
UserReply ==
    /\ Running
    /\ pc = "user"
    /\ \E ok \in BOOLEAN :
          IF ok
          THEN /\ cur' = [cur EXCEPT !.calls = Append(@, "list")]
               /\ pc' = "list"
               /\ Stay
          ELSE \* .await.unwrap()
               /\ cur' = [cur EXCEPT !.answer = [kind |-> "user_fail", project_id |-> 0]]
               /\ Die("panic", "called Result::unwrap() on an Err value")
    /\ UNCHANGED <<interval, args, now, last_request_time, projects, rx, connected, sent,
                   log, lost_reports>>
    /\ UNCHANGED <<watched, hours_in, rendered>>

(* lines 395-412 and 427: list_time_entries answers and the timer is classified *)
ListReply ==
    /\ Running
    /\ pc = "list"
    /\ \E a \in Answers :
          LET st == timer_status(a, projects[cur.project]) IN
          IF a.kind = "fail"
          THEN \* .await? here, ? at line 427 and ? at line 138: main returns Err
               /\ cur' = [cur EXCEPT !.answer = a]
               /\ Die("error", "list_time_entries failed")
          ELSE IF st = "panic"
          THEN \* timer.project.as_ref().unwrap().id.unwrap()
               /\ cur' = [cur EXCEPT !.answer = a]
               /\ Die("panic", "called Option::unwrap() on a None value")
          ELSE /\ cur' = [cur EXCEPT !.answer = a, !.status = st]
               /\ pc' = "dispatch"
               /\ Stay
    /\ UNCHANGED <<interval, args, now, last_request_time, projects, rx, connected, sent,
                   log, lost_reports>>
    /\ UNCHANGED <<watched, hours_in, rendered>>

(* a dispatch that names the project of the running timer, when it is registered *)
timer_project(projs, c) ==
    LET S == {i \in 1..Len(projs) : /\ c.answer.kind = "timer"
                                     /\ projs[i].harvest_project_id = c.answer.project_id}
    IN  IF S = {} THEN projs[c.project] ELSE projs[CHOOSE i \in S : TRUE]

(* lines 420-427, 437, 445: `project`, the one found for the path, is the one
   checked and named *)
notified_project(projs, c) == projs[c.project]

(* lines 429-452: the notification, if any, is shown; then back to rx.recv() *)
Dispatch ==
    /\ Running
    /\ pc = "dispatch"
    /\ LET ns == notifications_for(cur.status, notified_project(projects, cur)) IN
       IF ns = <<>>
       THEN /\ cur' = [cur EXCEPT !.dispatched = TRUE]
            /\ pc' = "recv"
            /\ Stay
       ELSE \E delivered \in BOOLEAN :
               /\ cur' = [cur EXCEPT !.dispatched = TRUE,
                                     !.shown = <<[summary |-> ns[1].summary,
                                                  body |-> ns[1].body,
                                                  delivered |-> delivered]>>]
               /\ IF delivered
                  THEN /\ pc' = "recv"
                       /\ Stay
                  ELSE \* .show().unwrap()
                       Die("panic", "called Result::unwrap() on an Err value")
    /\ UNCHANGED <<interval, args, now, last_request_time, projects, rx, connected, sent,
                   log, lost_reports>>
    /\ UNCHANGED <<watched, hours_in, rendered>>

Next ==
    \/ Tick
    \/ Startup
    \/ LoadProject
    \/ StartLoop
    \/ Send
    \/ Disconnect
    \/ Recv
    \/ RecvLost
    \/ UserReply
    \/ ListReply
    \/ Dispatch

Spec == Init /\ [][Next]_vars

----------------------------------------------------------------------------
(* The report command: the duration column of one time entry.  timer.hours
   is a number of hours with a fraction; here it is counted in seconds, so
   that floor and round are computed, not assumed. *)

(* the hours of the entries reported: below ten, two digits, three digits *)
ReportHours == {0, 1, 2, 9, 10, 99, 100}

(* entries of whole minutes and entries half a minute longer *)
ReportEntries ==
    {3600 * h + 60 * m + e : h \in ReportHours, m \in 0..59, e \in {0, 30}}

Digit(d) == <<"0", "1", "2", "3", "4", "5", "6", "7", "8", "9">>[d + 1]

(* the decimal digits of a natural number *)
RECURSIVE Digits(_)
Digits(n) == IF n < 10 THEN <<Digit(n)>> ELSE Append(Digits(n \div 10), Digit(n % 10))

(* {:02}: at least two digits, padded with zeros *)
pad02(n) == IF n < 10 THEN <<"0">> \o Digits(n) ELSE Digits(n)

(* the zero-hour form without its four spaces *)
decimal_hours_to_string_unaligned(secs) ==
    LET hours == secs \div 3600
        minutes == ((secs - 3600 * hours) + 30) \div 60
    IN  IF hours = 0
        THEN pad02(minutes) \o <<"m">>
        ELSE pad02(hours) \o <<"h", " ">> \o pad02(minutes) \o <<"m">>

(* decimal_hours_to_string: floor for the hours, the rest of the hour rounded
   to minutes *)
decimal_hours_to_string(secs) ==
    LET hours == secs \div 3600
        minutes == ((secs - 3600 * hours) + 30) \div 60
    IN  IF hours = 0
        THEN <<" ", " ", " ", " ">> \o pad02(minutes) \o <<"m">>
        ELSE pad02(hours) \o <<"h", " ">> \o pad02(minutes) \o <<"m">>

ReportInit ==
    /\ pc = "report"
    /\ exit = "running"
    /\ stderr = ""
    /\ interval = 60
    /\ args = <<>>
    /\ now = StartClock
    /\ last_request_time = None
    /\ projects = <<>>
    /\ watched = <<>>
    /\ rx = <<>>
    /\ connected = TRUE
    /\ sent = 0
    /\ cur = NoMessage
    /\ log = <<>>
    /\ lost_reports = 0
    /\ hours_in \in ReportEntries
    /\ rendered = <<>>

(* lines 207-219: the row of one time entry is written *)
ReportEntry ==
    /\ pc = "report"
    /\ rendered' = decimal_hours_to_string(hours_in)
    /\ pc' = "done"
    /\ UNCHANGED <<exit, stderr, interval, args, now, last_request_time, projects,
                   watched, rx, connected, sent, cur, log, lost_reports, hours_in>>

ReportNext == ReportEntry

ReportSpec == ReportInit /\ [][ReportNext]_vars

----------------------------------------------------------------------------
(* Properties *)

Checks(i, j) == {k \in i..j : log[k].checked}

IsEvent == cur.kind = "event"

(* the first path of the current event lies under no registered root *)
UnderNoRoot ==
    /\ IsEvent
    /\ cur.paths # <<>>
    /\ \A i \in 1..Len(projects) : ~starts_with(cur.paths[1], projects[i].root)

(* C1, as stated: over a run of file events each received less than
   `interval` after the previous one, at most one status check is made. *)
C1_BurstAtMostOneCheck ==
    \A i \in 1..Len(log) : \A j \in i..Len(log) :
        (\A k \in i..(j - 1) : log[k + 1].at - log[k].at < interval)
            => Cardinality(Checks(i, j)) <= 1

(* C1, amended: over file events all received within a span of at most
   `interval` (the last no more than `interval` after the first), at most
   one status check is made. *)
C1_WindowAtMostOneCheck ==
    \A i \in 1..Len(log) : \A j \in i..Len(log) :
        (log[j].at - log[i].at <= interval) => Cardinality(Checks(i, j)) <= 1

(* three events inside one window, at different times, the first one checked *)
C1_Witness ==
    /\ Len(log) = 3
    /\ log[1].at < log[2].at
    /\ log[2].at < log[3].at
    /\ log[3].at - log[1].at <= interval
    /\ Checks(1, 3) = {1}
    /\ pc = "recv"

(* C2: an event is accepted exactly when more than `interval` has elapsed
   since last_request_time; an accepted event sets last_request_time to the
   time it was handled and a dropped one leaves it; only an accepted event
   reaches notify_project_timer_status, and every accepted event that
   carries a path does; any two accepted events are more than `interval`
   apart. *)
C2_AcceptedIffIntervalPassed ==
    /\ IsEvent =>
          /\ cur.accepted <=> (cur.at - cur.before > interval)
          /\ last_request_time = Some(IF cur.accepted THEN cur.at ELSE cur.before)
          /\ cur.called <=> (cur.accepted /\ cur.paths # <<>>)
    /\ \A i \in 1..Len(log) : \A j \in (i + 1)..Len(log) :
          (log[i].accepted /\ log[j].accepted) => log[j].at - log[i].at > interval

(* an event handled exactly `interval` after an accepted one is dropped *)
C2_Witness ==
    /\ IsEvent
    /\ Len(log) >= 2
    /\ log[Len(log) - 1].accepted
    /\ cur.before = log[Len(log) - 1].at
    /\ cur.at - cur.before = interval
    /\ ~cur.accepted
    /\ last_request_time = Some(cur.before)

(* C3, as stated: whatever the interval, the debounce state is set up at
   startup and the first file event received is accepted. *)
C3_FirstEventAlwaysAccepted ==
    /\ (pc # "start") => (last_request_time.some \/ stderr = "setup failed")
    /\ (Len(log) >= 1) => log[1].accepted

(* C4: an accepted event whose path is under no registered root causes no
   remote call and no notification. *)
C4_UnresolvedNoQueryNoNotification ==
    (UnderNoRoot /\ cur.accepted) =>
        /\ cur.calls = <<>>
        /\ cur.answer = NoAnswer
        /\ cur.status = "none"
        /\ cur.shown = <<>>
        /\ pc \notin {"user", "list", "dispatch"}

(* an accepted event under no root has been handled *)
C4_Witness ==
    /\ UnderNoRoot
    /\ cur.accepted
    /\ cur.called
    /\ cur.project = 0
    /\ pc = "done"

(* C5, as stated: after an accepted event whose path resolves to no project
   the process is still running, the loop back at rx.recv(). *)
C5_UnresolvedLoopContinues ==
    (UnderNoRoot /\ cur.accepted) => (exit = "running" /\ pc = "recv")

(* C6: a dispatch for TimerRunning shows no notification; for
   TimerNotRunning it shows exactly one, "Timer not running"; for
   TimerForDifferentProject exactly one, "Timer running for other project";
   nothing is shown before the dispatch. *)
C6_DispatchNotificationCount ==
    /\ ~cur.dispatched => cur.shown = <<>>
    /\ cur.dispatched =>
          /\ cur.status \in {"TimerRunning", "TimerNotRunning", "TimerForDifferentProject"}
          /\ cur.status = "TimerRunning" => cur.shown = <<>>
          /\ cur.status = "TimerNotRunning" =>
                /\ Len(cur.shown) = 1
                /\ cur.shown[1].summary = "Timer not running"
          /\ cur.status = "TimerForDifferentProject" =>
                /\ Len(cur.shown) = 1
                /\ cur.shown[1].summary = "Timer running for other project"

(* a dispatch for a timer of another project has shown its one notification *)
C6_Witness ==
    /\ cur.dispatched
    /\ cur.status = "TimerForDifferentProject"
    /\ Len(cur.shown) = 1
    /\ cur.shown[1].delivered
    /\ pc = "recv"

(* the remote service answered the list call of the current check *)
Answered == cur.answer.kind \in {"none", "timer", "timer_no_project"}

(* C7, as stated: every successful answer is classified as exactly one of
   the three results: no timer as TimerNotRunning, a timer of this project
   as TimerRunning, any other timer as TimerForDifferentProject. *)
C7_EveryAnswerClassified ==
    Answered =>
        LET mine == /\ cur.answer.kind = "timer"
                    /\ cur.answer.project_id = projects[cur.project].harvest_project_id
        IN  cur.status = IF cur.answer.kind = "none" THEN "TimerNotRunning"
                         ELSE IF mine THEN "TimerRunning"
                         ELSE "TimerForDifferentProject"

(* C8, as stated: after a failed identify-user or list-running-timers call
   the process is still running. *)
C8_FailedQueryLoopContinues ==
    (cur.answer.kind \in {"user_fail", "fail"}) => exit = "running"

(* C9, as stated: after the notification surface rejected a notification
   the process is still running. *)
C9_RejectedNotificationLoopContinues ==
    (\E k \in 1..Len(cur.shown) : ~cur.shown[k].delivered) => exit = "running"

(* C10, as stated: once the loss of the event channel has been reported the
   loop has ended and the process has exited with a non-zero status. *)
C10_LostChannelEndsLoop ==
    (lost_reports > 0) => (pc = "done" /\ exit \in {"error", "panic"})

(* the accepted event before event j of the log, 0 when there is none *)
LastAcceptedBefore(j) ==
    LET S == {i \in 1..(j - 1) : log[i].accepted}
    IN  IF S = {} THEN 0 ELSE CHOOSE i \in S : \A k \in S : k <= i

(* C11: there is one cooldown window for all projects: an event received no
   more than `interval` after an accepted one is dropped, with no project
   resolved, no status check and no notification, whichever project either
   event belongs to; whether an event is accepted is decided by the time
   since the last accepted event alone. *)
C11_GlobalCooldown ==
    /\ \A j \in 1..Len(log) :
          LET i == LastAcceptedBefore(j) IN
          (i # 0) =>
             /\ log[j].accepted <=> (log[j].at - log[i].at > interval)
             /\ ~log[j].accepted => (~log[j].checked /\ log[j].project = 0)
    /\ (IsEvent /\ ~cur.accepted) =>
          (cur.project = 0 /\ cur.calls = <<>> /\ cur.shown = <<>>)

(* an event for Alpha was accepted and checked, and an event for Beta inside
   the same window has been dropped *)
C11_Witness ==
    /\ IsEvent
    /\ Len(log) >= 2
    /\ log[Len(log) - 1].accepted
    /\ log[Len(log) - 1].checked
    /\ projects[log[Len(log) - 1].project].name = "Alpha"
    /\ cur.paths # <<>>
    /\ starts_with(cur.paths[1], BetaRoot)
    /\ cur.at - log[Len(log) - 1].at <= interval
    /\ ~cur.accepted
    /\ cur.calls = <<>>

(* root's components are the leading components of path *)
IsSegmentPrefix(root, path) ==
    /\ Len(root) <= Len(path)
    /\ \A k \in 1..Len(root) : path[k] = root[k]

(* the first registered project whose root contains path, 0 when none does *)
Owner(path) ==
    LET S == {i \in 1..Len(projects) : IsSegmentPrefix(projects[i].root, path)}
    IN  IF S = {} THEN 0 ELSE CHOOSE i \in S : \A k \in S : i <= k

(* C12: every notification names the project that owns the changed path,
   whatever project the running timer belongs to: with a running timer of
   project 42 and an event of Beta the status is TimerForDifferentProject
   and the one notification names Beta; with no running timer and an event
   of Alpha the one notification is "Timer not running" and names Alpha. *)
C12_NotificationNamesPathOwner ==
    /\ \A k \in 1..Len(cur.shown) :
          /\ cur.project = Owner(cur.paths[1])
          /\ cur.shown[k].body = <<"Start a timer for ", projects[Owner(cur.paths[1])].name>>
    /\ (/\ cur.dispatched
        /\ cur.answer = [kind |-> "timer", project_id |-> 42]
        /\ projects[cur.project].name = "Beta")
          => /\ cur.status = "TimerForDifferentProject"
             /\ cur.shown = <<[summary |-> "Timer running for other project",
                               body |-> <<"Start a timer for ", "Beta">>,
                               delivered |-> cur.shown[1].delivered]>>
    /\ (/\ cur.dispatched
        /\ cur.answer.kind = "none"
        /\ projects[cur.project].name = "Alpha")
          => /\ cur.status = "TimerNotRunning"
             /\ cur.shown = <<[summary |-> "Timer not running",
                               body |-> <<"Start a timer for ", "Alpha">>,
                               delivered |-> cur.shown[1].delivered]>>

(* Alpha's timer (42) runs, an event of Beta (99) was checked and its
   notification shown *)
C12_Witness ==
    /\ cur.dispatched
    /\ cur.answer = [kind |-> "timer", project_id |-> 42]
    /\ projects[cur.project].harvest_project_id = 99
    /\ starts_with(cur.paths[1], BetaRoot)
    /\ Len(cur.shown) = 1
    /\ cur.shown[1].body = <<"Start a timer for ", "Beta">>

(* the registered projects whose root contains path *)
Containing(path) == {i \in 1..Len(projects) : IsSegmentPrefix(projects[i].root, path)}

(* C13: resolution is containment on whole path components: the project
   found for a path has a root whose components begin the path's components,
   no project is found exactly when no root does, and root /p/alpha is never
   found for /p/alphabet/file.txt. *)
C13_MatchOnWholeSegments ==
    cur.called =>
        /\ cur.project # 0 => IsSegmentPrefix(projects[cur.project].root, cur.paths[1])
        /\ cur.project = 0 <=> Containing(cur.paths[1]) = {}
        /\ (cur.paths[1] = AlphabetPath /\ cur.project # 0)
              => projects[cur.project].root # AlphaRoot

(* /p/alphabet/file.txt was handled with /p/alpha and /p/beta registered and
   no project was found for it *)
C13_Witness ==
    /\ cur.called
    /\ cur.paths[1] = AlphabetPath
    /\ \E i \in 1..Len(projects) : projects[i].root = AlphaRoot
    /\ cur.project = 0
    /\ exit = "panic"

(* C14: when several registered roots contain the changed path, the project
   found is the one registered first, and the status is computed against
   that project's id and the notification names that project. *)
C14_FirstRegisteredWins ==
    (cur.called /\ Containing(cur.paths[1]) # {}) =>
        /\ cur.project \in Containing(cur.paths[1])
        /\ \A i \in Containing(cur.paths[1]) : cur.project <= i
        /\ cur.status # "none" =>
              (cur.status = "TimerRunning"
                  <=> cur.answer.project_id = projects[cur.project].harvest_project_id)
        /\ \A k \in 1..Len(cur.shown) :
              cur.shown[k].body = <<"Start a timer for ", projects[cur.project].name>>

(* /p (Outer, registered first) and /p/alpha (Alpha) both contain the path,
   Alpha's timer runs, and the notification is about Outer *)
C14_Witness ==
    /\ cur.dispatched
    /\ Cardinality(Containing(cur.paths[1])) = 2
    /\ projects[cur.project].name = "Outer"
    /\ cur.answer = [kind |-> "timer", project_id |-> 42]
    /\ cur.status = "TimerForDifferentProject"
    /\ Len(cur.shown) = 1
    /\ cur.shown[1].body = <<"Start a timer for ", "Outer">>

(* C20: an accepted event is resolved by its first path alone, makes at most
   one identify-user call followed by at most one list call, shows at most
   one notification, and a failed call is not repeated; an accepted event
   without paths makes no call and shows nothing. *)
C20_OneProjectOneCheck ==
    /\ cur.calls \in {<<>>, <<"user">>, <<"user", "list">>}
    /\ Len(cur.shown) <= 1
    /\ cur.called => cur.project = Owner(cur.paths[1])
    /\ cur.answer.kind = "user_fail" => (cur.calls = <<"user">> /\ pc = "done")
    /\ cur.answer.kind = "fail" => (cur.calls = <<"user", "list">> /\ pc = "done")
    /\ (IsEvent /\ cur.accepted /\ cur.paths = <<>>) =>
          /\ ~cur.called
          /\ cur.project = 0
          /\ cur.calls = <<>>
          /\ cur.shown = <<>>
          /\ pc = "done"

(* an event with a path of Alpha and then a path of Beta was checked for
   Alpha with one call of each kind *)
C20_Witness ==
    /\ cur.dispatched
    /\ Len(cur.paths) = 2
    /\ starts_with(cur.paths[1], AlphaRoot)
    /\ starts_with(cur.paths[2], BetaRoot)
    /\ projects[cur.project].name = "Alpha"
    /\ cur.calls = <<"user", "list">>
    /\ Len(cur.shown) = 1

(* an accepted event without paths has been handled *)
EmptyEventHandled == IsEvent /\ cur.accepted /\ cur.paths = <<>> /\ pc = "done"

(* the root C15 gives for a descriptor path: its directory, or the directory
   above when that directory is named .config *)
ClaimedRoot(path) ==
    LET dir == SubSeq(path, 1, Len(path) - 1)
    IN  IF dir # <<>> /\ dir[Len(dir)] = ".config"
        THEN SubSeq(dir, 1, Len(dir) - 1)
        ELSE dir

(* the registration loop ended on a descriptor it could not load *)
LoadFailed ==
    /\ pc = "done"
    /\ exit = "error"
    /\ stderr # "setup failed"
    /\ Len(projects) < Len(args)

(* every registered project has the root C15 gives *)
RegisteredRootsAsClaimed ==
    \A k \in 1..Len(projects) : projects[k].root = ClaimedRoot(args[k].path)

(* C15, as stated: every project registered has the directory of its
   descriptor as root, or the directory above a .config directory, and
   loading fails only on a descriptor that is missing or malformed. *)
C15_RootFromDescriptor ==
    /\ RegisteredRootsAsClaimed
    /\ LoadFailed => args[Len(projects) + 1].file.state # "ok"

(* the event loop has been entered, or a message has been taken *)
InLoop == pc \in {"recv", "user", "list", "dispatch"} \/ cur.kind # "none" \/ log # <<>>

(* C16: the loop takes no message before every descriptor is loaded and
   every root is watched; with a missing or malformed descriptor on the
   command line the loop is never entered: no message is taken, no call is
   made and nothing is shown, also when roots registered before it are
   already watched and have sent events. *)
C16_StartupBeforeLoop ==
    /\ InLoop =>
          /\ Len(projects) = Len(args)
          /\ Len(watched) = Len(args)
          /\ \A k \in 1..Len(args) :
                /\ args[k].file.state = "ok"
                /\ watched[k] = projects[k].root
    /\ (\E k \in 1..Len(args) : args[k].file.state # "ok") =>
          /\ ~InLoop
          /\ cur = NoMessage
          /\ pc \in {"start", "load", "done"}

(* the second descriptor is missing: the process ended with Alpha's root
   watched and an event of it in the channel, never taken *)
C16_Witness ==
    /\ pc = "done"
    /\ exit = "error"
    /\ stderr = "didn't find the project config file"
    /\ watched = <<AlphaRoot>>
    /\ rx # <<>>
    /\ cur = NoMessage

(* a status check is in flight: a remote call or the notification *)
Checking == pc \in {"user", "list", "dispatch"}

(* C18: while a check is in flight no message is taken from the channel
   (messages may arrive), the event being checked stays the same and the
   debounce state is not touched; a message is taken only at rx.recv(), and
   it is the oldest one in the channel. *)
C18_OneEventAtATime ==
    [][ /\ Checking =>
              /\ log' = log
              /\ last_request_time' = last_request_time
              /\ cur'.kind = cur.kind
              /\ cur'.paths = cur.paths
              /\ cur'.at = cur.at
              /\ cur'.project = cur.project
              /\ rx' = rx \/ \E m \in Messages : rx' = Append(rx, m)
        /\ Len(rx') < Len(rx) =>
              /\ pc = "recv"
              /\ rx' = Tail(rx)
              /\ cur'.kind = Head(rx).kind
              /\ cur'.paths = Head(rx).paths
              /\ cur'.at = now
      ]_vars

(* a check waits for list_time_entries while two different messages wait in
   the channel *)
C18_Witness ==
    /\ pc = "list"
    /\ Len(rx) = 2
    /\ rx[1] # rx[2]

(* C19: a dropped event leaves last_request_time as it was, resolves no
   project, makes no call and shows nothing; last_request_time is written
   only when an event is accepted, to the time of that event, and it keeps
   that value when the path resolves to no project, when the path list is
   empty and when the check fails. *)
C19_DroppedEventChangesNothing ==
    [][ /\ (cur'.kind = "event" /\ ~cur'.accepted) =>
              /\ last_request_time' = Some(cur'.before)
              /\ cur'.project = 0
              /\ cur'.calls = <<>>
              /\ cur'.answer = NoAnswer
              /\ cur'.shown = <<>>
        /\ (cur'.kind = "event" /\ cur'.accepted) => last_request_time' = Some(cur'.at)
        /\ (pc = "recv" /\ log' # log /\ ~cur'.accepted) =>
              /\ last_request_time' = last_request_time
              /\ pc' = "recv"
              /\ exit' = exit
        /\ (last_request_time' # last_request_time /\ pc # "start") =>
              /\ pc = "recv"
              /\ cur'.kind = "event"
              /\ cur'.accepted
              /\ last_request_time' = Some(now)
      ]_vars

(* an accepted event whose check failed at list_time_entries: the process
   ended with last_request_time at the time of that event *)
C19_Witness ==
    /\ IsEvent
    /\ cur.accepted
    /\ cur.answer.kind = "fail"
    /\ exit = "error"
    /\ cur.at > cur.before + interval
    /\ last_request_time = Some(cur.at)

(* the entry printed lasts a whole number of minutes *)
WholeMinutes == hours_in % 60 = 0

EntryH == hours_in \div 3600
EntryM == (hours_in % 3600) \div 60

(* two decimal digits of a number below 100 *)
TwoDigits(n) == <<Digit(n \div 10), Digit(n % 10)>>

(* C17, as stated: an entry of h hours and m minutes renders as HHh MMm when
   h > 0 and as four spaces and MMm when h = 0, HH and MM two digits each,
   MM in 00..59, both forms seven characters wide. *)
C17_DurationRendering ==
    (pc = "done" /\ WholeMinutes) =>
        /\ EntryM \in 0..59
        /\ Len(rendered) = 7
        /\ EntryH = 0 => rendered = <<" ", " ", " ", " ">> \o TwoDigits(EntryM) \o <<"m">>
        /\ EntryH > 0 => /\ SubSeq(rendered, 3, 7) = <<"h", " ">> \o TwoDigits(EntryM) \o <<"m">>
                         /\ EntryH < 100 => SubSeq(rendered, 1, 2) = TwoDigits(EntryH)

(* C17, amended: as stated for h up to 99 (so 1.5 hours is 01h 30m and 0.25
   hours is four spaces and 15m, both seven characters); from 100 hours on
   the hour field holds all the digits of h and the column is wider than
   seven characters. *)
C17_DurationRenderingUpTo99 ==
    (pc = "done" /\ WholeMinutes) =>
        /\ EntryM \in 0..59
        /\ EntryH = 0 => rendered = <<" ", " ", " ", " ">> \o TwoDigits(EntryM) \o <<"m">>
        /\ (EntryH > 0 /\ EntryH < 100) =>
              rendered = TwoDigits(EntryH) \o <<"h", " ">> \o TwoDigits(EntryM) \o <<"m">>
        /\ EntryH < 100 => Len(rendered) = 7
        /\ EntryH >= 100 =>
              /\ Len(rendered) > 7
              /\ SubSeq(rendered, Len(rendered) - 4, Len(rendered))
                    = <<"h", " ">> \o TwoDigits(EntryM) \o <<"m">>
        /\ hours_in = 5400 => rendered = <<"0", "1", "h", " ", "3", "0", "m">>
        /\ hours_in = 900 => rendered = <<" ", " ", " ", " ", "1", "5", "m">>

(* 1.5 hours have been rendered as 01h 30m *)
C17_Witness ==
    /\ pc = "done"
    /\ hours_in = 5400
    /\ rendered = <<"0", "1", "h", " ", "3", "0", "m">>

====
